---- MODULE Spec2Model ----
(***************************************************************************)
(* Model of src/watcher.py: an nginx access-log watcher that tails a log   *)
(* file, tracks the active upstream pool, keeps a sliding window of 5xx    *)
(* outcomes and sends cooldown-gated Slack alerts.                         *)
(*                                                                         *)
(* The log file is a sequence of atoms.  An atom is one token of text:     *)
(* "pool=A", "upstream_status=500" or the line terminator.  Times are      *)
(* whole seconds of the wall clock (time.time()), which is far beyond any  *)
(* cooldown when the process starts.  ERROR_RATE_THRESHOLD is the          *)
(* percentage of the environment; the comparison errors/total >            *)
(* percent/100 of the code is done by cross multiplication.                *)
(***************************************************************************)
EXTENDS Integers, Sequences, FiniteSets, TLC

VARIABLES
    WINDOW_SIZE,           \* watcher.py:13
    ERROR_RATE_THRESHOLD,  \* watcher.py:14, in percent
    ALERT_COOLDOWN,        \* watcher.py:15
    SLACK_WEBHOOK_URL,     \* watcher.py:16, TRUE iff the variable is set
    request_window,        \* watcher.py:19
    current_pool,          \* watcher.py:20
    last_failover_alert,   \* watcher.py:21
    last_error_alert,      \* watcher.py:22
    file_position,         \* watcher.py:23
    last_parsed_data,      \* watcher.py:24
    is_startup,            \* watcher.py:25
    log_file,              \* content of LOG_FILE, a sequence of atoms
    file_exists,           \* os.path.exists(LOG_FILE)
    now,                   \* time.time()
    pc,                    \* position of main()
    reader,                \* per thread: position of f inside process_new_lines, -1 outside
    pending,               \* TRUE iff a modification event of LOG_FILE is queued for the observer
    alert_count,           \* calls of send_slack_alert, per kind
    last_alert,            \* per kind, the last call of send_slack_alert
    verdict,               \* what the last check_error_rate call printed
    cands,                 \* per kind, the last alert candidate seen in live mode and the one before
    high_water,            \* the highest file offset a read loop has been handed
    reread,                \* TRUE once a record was parsed from text a read loop had been handed before
    historical,            \* TRUE once a record was handled in startup mode
    backlog_end            \* the end of the text the file held when the backfill pass opened
                           \* it; 0 once the committed offset has reached it

config == <<WINDOW_SIZE, ERROR_RATE_THRESHOLD, ALERT_COOLDOWN, SLACK_WEBHOOK_URL>>
globals == <<request_window, current_pool, last_failover_alert, last_error_alert,
             last_parsed_data, alert_count, last_alert, verdict, cands>>
vars == <<config, globals, file_position, is_startup, log_file, file_exists, now,
          pc, reader, pending, high_water, reread, historical, backlog_end>>
ghosts == <<high_water, reread, historical, backlog_end>>

(***************************************************************************)
(* Bounds of the model.                                                    *)
(***************************************************************************)
MaxLines == 4
MaxAtoms == 5
MaxTicks == 2
MaxVerdictLines == 51
MaxLiveLines == 2
StartTime == 5

Threads == {"main", "observer"}
Kinds == {"failover", "error"}

NL == "\n"
PoolTok == {"pool=A", "pool=B"}
StatusTok == {"upstream_status=200", "upstream_status=500"}

\* group(1) of the pool match
PoolName(a) == IF a = "pool=A" THEN "A" ELSE "B"
\* int(status_match.group(1))
StatusInt(a) == IF a = "upstream_status=200" THEN 200 ELSE 500

Min(a, b) == IF a < b THEN a ELSE b

NoRecord == [pool |-> "None", upstream_status |-> 0]
EmptyDict == [pool |-> "unknown", upstream_status |-> 0]
NoAlert == [kind |-> "none", from |-> "None", to |-> "None", data |-> NoRecord,
            delivery |-> "none"]
NoCand == [time |-> -1, fired |-> FALSE, gap |-> -1, prev_fired |-> FALSE]

(***************************************************************************)
(* parse_log_line: re.search takes the first match of each pattern.        *)
(***************************************************************************)
FirstIn(line, S) ==
    LET idx == {i \in 1..Len(line) : line[i] \in S}
    IN  IF idx = {} THEN 0 ELSE CHOOSE i \in idx : \A j \in idx : i <= j

\* a variant that makes a record of a line holding either token
parse_either_token(line) ==
    LET pool_match == FirstIn(line, PoolTok)
        status_match == FirstIn(line, StatusTok)
    IN  IF pool_match # 0 \/ status_match # 0
        THEN [pool |-> IF pool_match # 0 THEN PoolName(line[pool_match]) ELSE "unknown",
              upstream_status |-> IF status_match # 0 THEN StatusInt(line[status_match])
                                  ELSE 0]
        ELSE NoRecord

parse_log_line(line) ==
    LET pool_match == FirstIn(line, PoolTok)
        status_match == FirstIn(line, StatusTok)
    IN  IF pool_match # 0 /\ status_match # 0
        THEN [pool |-> PoolName(line[pool_match]),
              upstream_status |-> StatusInt(line[status_match])]
        ELSE NoRecord

\* line.strip(): the terminator at the end of the line is removed
strip(raw) ==
    IF Len(raw) > 0 /\ raw[Len(raw)] = NL THEN SubSeq(raw, 1, Len(raw) - 1) ELSE raw

\* what the iteration "for line in f" returns with f at offset pos: the text
\* up to and including the next terminator, or up to end of file
NextLine(file, pos) ==
    LET nls == {i \in (pos + 1)..Len(file) : file[i] = NL}
        last == IF nls = {} THEN Len(file) ELSE CHOOSE i \in nls : \A j \in nls : i <= j
    IN  SubSeq(file, pos + 1, last)

(***************************************************************************)
(* The sliding window: deque(maxlen=WINDOW_SIZE).append                    *)
(***************************************************************************)
\* faulty variant: a full window drops the new outcome instead of the oldest
DequeKeepOldest(window, x, maxlen) ==
    IF Len(window) >= maxlen THEN window ELSE Append(window, x)

DequeAppend(window, x, maxlen) ==
    IF maxlen = 0 THEN window
    ELSE IF Len(window) >= maxlen
         THEN Append(SubSeq(window, 2, Len(window)), x)
         ELSE Append(window, x)

is_error(status) == 500 <= status /\ status < 600

RECURSIVE sum(_)
sum(window) ==
    IF window = <<>> THEN 0
    ELSE (IF Head(window) THEN 1 ELSE 0) + sum(Tail(window))

(***************************************************************************)
(* The module globals the detectors read and write, as one record, so that *)
(* the body of the read loop is a composition of functions.  raised is     *)
(* TRUE when an exception is propagating out of the call.                  *)
(***************************************************************************)
Globals ==
    [request_window |-> request_window, current_pool |-> current_pool,
     last_failover_alert |-> last_failover_alert, last_error_alert |-> last_error_alert,
     last_parsed_data |-> last_parsed_data, alert_count |-> alert_count,
     last_alert |-> last_alert, verdict |-> verdict, cands |-> cands,
     raised |-> FALSE]

SinkOutcomes == {"200", "non200", "exception"}

\* lines 79-94: what becomes of the POST; no exception leaves the function
Delivery(outcome) ==
    IF ~SLACK_WEBHOOK_URL THEN "skipped"
    ELSE IF outcome = "200" THEN "delivered"
    ELSE "failed"

\* faulty variant: the POST is not guarded, a transport exception leaves the function
SinkRaisesOnException(outcome) == SLACK_WEBHOOK_URL /\ outcome = "exception"

\* lines 83-94: the try/except around the POST
SinkRaises(outcome) == FALSE

send_slack_alert(g, kind, from, to, parsed_data, outcome) ==
    [g EXCEPT !.alert_count[kind] = @ + 1,
              !.last_alert[kind] = [kind |-> kind, from |-> from, to |-> to,
                                    data |-> parsed_data,
                                    delivery |-> Delivery(outcome)],
              !.raised = SinkRaises(outcome)]

\* faulty variant: the startup flag is not consulted
AlertDuringStartup == FALSE

\* lines 114 and 152
SkipAlerting == is_startup

\* faulty variant: the cooldown is not consulted
CooldownIgnored(time_since_last) == TRUE

\* lines 120 and 156
CooldownElapsed(time_since_last) == time_since_last > ALERT_COOLDOWN

\* a variant with one cooldown for both kinds: the later of the two timestamps
LastAlertOfAny(g, kind) ==
    IF g.last_failover_alert > g.last_error_alert
    THEN g.last_failover_alert ELSE g.last_error_alert

\* lines 111 and 144: the timestamp the cooldown of a kind is measured from
LastAlertOf(g, kind) ==
    IF kind = "failover" THEN g.last_failover_alert ELSE g.last_error_alert

\* faulty variant: every record counts as a pool change
PoolAlwaysChanged(pool, tracked) == TRUE

\* line 110
PoolChanged(pool, tracked) == pool # tracked

\* the last alert candidate of a kind: when it was seen, whether it was sent,
\* how long after the candidate before it (-1: there was none), and whether
\* that one was sent
NoteCandidate(g, kind, fired) ==
    [g EXCEPT !.cands[kind] = [time |-> now, fired |-> fired,
                               gap |-> IF @.time < 0 THEN -1 ELSE now - @.time,
                               prev_fired |-> @.fired]]

\* a variant in which a suppressed event starts the cooldown anew
cooldown_restarted(g, kind, current_time) ==
    IF kind = "failover" THEN [g EXCEPT !.last_failover_alert = current_time]
    ELSE [g EXCEPT !.last_error_alert = current_time]

\* lines 125-127 and 167-169: within the cooldown the event is only logged
cooldown_active(g, kind, current_time) == g

\* a variant that records the pool of the first record only
TrackFirstPoolOnly(g, pool, parsed_data) ==
    IF g.current_pool = "None"
    THEN [g EXCEPT !.current_pool = pool, !.last_parsed_data = parsed_data]
    ELSE [g EXCEPT !.last_parsed_data = parsed_data]

\* lines 104 and 107, 116-117, 129-130
TrackPool(g, pool, parsed_data) ==
    [g EXCEPT !.current_pool = pool, !.last_parsed_data = parsed_data]

check_failover(g, parsed_data, outcome) ==
    LET pool == parsed_data.pool
        current_time == now
        time_since_last == current_time - LastAlertOf(g, "failover")
        tracked == TrackPool(g, pool, parsed_data)
    IN  IF g.current_pool = "None" THEN tracked
        ELSE IF PoolChanged(pool, g.current_pool)
        THEN IF SkipAlerting THEN tracked
             ELSE IF CooldownElapsed(time_since_last)
                  THEN LET sent == send_slack_alert(g, "failover", g.current_pool, pool,
                                                    parsed_data, outcome)
                       IN  IF sent.raised THEN sent
                           ELSE NoteCandidate(
                                  TrackPool([sent EXCEPT !.last_failover_alert = current_time],
                                            pool, parsed_data),
                                  "failover", TRUE)
                  ELSE NoteCandidate(cooldown_active(tracked, "failover", current_time),
                                     "failover", FALSE)
        ELSE g

\* line 137: the floor of the sample count
FloorSamples == 50
MinSamples == Min(FloorSamples, WINDOW_SIZE)

\* faulty variant: the threshold itself already counts as a breach
ThresholdReached(errors, total) == errors * 100 >= ERROR_RATE_THRESHOLD * total

\* line 150: errors / total > ERROR_RATE_THRESHOLD / 100
ThresholdExceeded(errors, total) == errors * 100 > ERROR_RATE_THRESHOLD * total

check_error_rate(g, outcome) ==
    IF Len(g.request_window) < MinSamples THEN [g EXCEPT !.verdict = "none"]
    ELSE LET total == Len(g.request_window)
             errors == sum(g.request_window)
             current_time == now
             time_since_last == current_time - LastAlertOf(g, "error")
         IN  IF ThresholdExceeded(errors, total)
             THEN LET shown == [g EXCEPT !.verdict = "breach"]
                  IN  IF SkipAlerting THEN shown
                      ELSE IF CooldownElapsed(time_since_last)
                           THEN LET sent == send_slack_alert(shown, "error", "None",
                                                 g.current_pool, g.last_parsed_data, outcome)
                                IN  IF sent.raised THEN sent
                                    ELSE NoteCandidate(
                                           [sent EXCEPT !.last_error_alert = current_time],
                                           "error", TRUE)
                           ELSE NoteCandidate(cooldown_active(shown, "error", current_time),
                                              "error", FALSE)
             ELSE [g EXCEPT !.verdict = "ok"]

\* lines 202-204
Track(g, outcome_flag) ==
    [g EXCEPT !.request_window = DequeAppend(@, outcome_flag, WINDOW_SIZE)]

\* lines 192-207: the body of the read loop for one parsed record
process_record(g, parsed_data, o1, o2) ==
    LET g1 == check_failover(g, parsed_data, o1)
    IN  IF g1.raised THEN g1
        ELSE check_error_rate(Track(g1, is_error(parsed_data.upstream_status)), o2)

\* lines 186-207: the body of the read loop for one line as read
process_line(g, raw, o1, o2) ==
    LET line == strip(raw)
        parsed_data == parse_log_line(line)
    IN  IF line = <<>> \/ parsed_data = NoRecord THEN g
        ELSE process_record(g, parsed_data, o1, o2)

(***************************************************************************)
(* Actions.                                                                *)
(***************************************************************************)
SetGlobals(g) ==
    /\ request_window' = g.request_window
    /\ current_pool' = g.current_pool
    /\ last_failover_alert' = g.last_failover_alert
    /\ last_error_alert' = g.last_error_alert
    /\ last_parsed_data' = g.last_parsed_data
    /\ alert_count' = g.alert_count
    /\ last_alert' = g.last_alert
    /\ verdict' = g.verdict
    /\ cands' = g.cands

\* process_new_lines has returned to its caller
Returned(t) == IF t = "main" THEN "drained" ELSE pc

\* the log writer creates the file main() is waiting for (line 240)
CreateFile ==
    /\ ~file_exists
    /\ file_exists' = TRUE
    /\ UNCHANGED <<config, globals, file_position, is_startup, log_file, now, pc,
                   reader, pending, ghosts>>

\* a variant in which the observer is started before the backfill pass
ObserverStartedFirst == pc # "await"

\* lines 264-267: observer.start() has been called, which main() does after
\* the backfill pass has returned and is_startup is False
ObserverRunning == pc = "live"

\* the log writer appends text; a running observer queues an event, and the
\* observer's queue drops an event equal to the one queued last (lines 220, 266-267)
AppendLog(chunk, cap) ==
    /\ file_exists
    /\ Len(log_file) + Len(chunk) <= cap
    /\ log_file' = log_file \o chunk
    /\ pending' = (pending \/ ObserverRunning)
    /\ UNCHANGED <<config, globals, file_position, is_startup, file_exists, now, pc,
                   reader, ghosts>>

\* lines 240-248 and 182-183: the file exists; the backfill pass opens it
StartBackfill ==
    /\ pc = "await"
    /\ file_exists
    /\ is_startup' = TRUE
    /\ reader' = [reader EXCEPT !["main"] = file_position]
    /\ pc' = "backfill"
    /\ backlog_end' = Len(log_file)
    /\ UNCHANGED <<config, globals, file_position, log_file, file_exists, now,
                   pending, high_water, reread, historical>>

\* lines 185-207: one iteration of "for line in f"
ProcessLine(t) ==
    /\ reader[t] >= 0
    /\ reader[t] < Len(log_file)
    /\ \E o1 \in SinkOutcomes, o2 \in SinkOutcomes :
         LET raw == NextLine(log_file, reader[t])
             g == process_line(Globals, raw, o1, o2)
         IN  /\ SetGlobals(g)
             /\ reader' = [reader EXCEPT ![t] = IF g.raised THEN -1 ELSE @ + Len(raw)]
             /\ pc' = IF g.raised THEN Returned(t) ELSE pc
             /\ high_water' = IF reader[t] + Len(raw) > high_water
                              THEN reader[t] + Len(raw) ELSE high_water
             /\ reread' = (reread \/ (reader[t] < high_water
                                       /\ parse_log_line(strip(raw)) # NoRecord))
             /\ historical' = (historical \/ (is_startup
                                              /\ parse_log_line(strip(raw)) # NoRecord))
    /\ UNCHANGED <<config, file_position, is_startup, log_file, file_exists, now,
                   pending, backlog_end>>

\* line 209: the iteration is at end of file; the offset is committed
EndPass(t) ==
    /\ reader[t] >= 0
    /\ reader[t] = Len(log_file)
    /\ file_position' = reader[t]
    /\ reader' = [reader EXCEPT ![t] = -1]
    /\ pc' = Returned(t)
    /\ backlog_end' = IF reader[t] >= backlog_end THEN 0 ELSE backlog_end
    /\ UNCHANGED <<config, globals, is_startup, log_file, file_exists, now, pending,
                   high_water, reread, historical>>

\* a variant that starts over after a failed pass: the offset is reset
ReadFaultRewinds(t) ==
    /\ reader[t] >= 0
    /\ reader' = [reader EXCEPT ![t] = -1]
    /\ pc' = Returned(t)
    /\ file_position' = 0
    /\ UNCHANGED <<config, globals, is_startup, log_file, file_exists,
                   now, pending, ghosts>>

\* lines 213-214: reading raises (an I/O error, undecodable bytes); the pass
\* is abandoned and line 209 is not reached
ReadFault(t) ==
    /\ reader[t] >= 0
    /\ reader' = [reader EXCEPT ![t] = -1]
    /\ pc' = Returned(t)
    /\ UNCHANGED <<config, globals, file_position, is_startup, log_file, file_exists,
                   now, pending, ghosts>>

\* line 258
EndStartup ==
    /\ pc = "drained"
    /\ is_startup' = FALSE
    /\ pc' = "monitoring"
    /\ UNCHANGED <<config, globals, file_position, log_file, file_exists, now,
                   reader, pending, ghosts>>

\* lines 264-267
StartObserver ==
    /\ pc = "monitoring"
    /\ pc' = "live"
    /\ UNCHANGED <<config, globals, file_position, is_startup, log_file, file_exists,
                   now, reader, pending, ghosts>>

\* lines 220-222 and 182-183: the observer thread takes one event and opens the file
on_modified ==
    /\ ObserverRunning
    /\ pending
    /\ reader["observer"] = -1
    /\ pending' = FALSE
    /\ reader' = [reader EXCEPT !["observer"] = file_position]
    /\ UNCHANGED <<config, globals, file_position, is_startup, log_file, file_exists,
                   now, pc, ghosts>>

\* the wall clock read by time.time() (lines 101 and 143)
Tick(limit) ==
    /\ now < limit
    /\ now' = now + 1
    /\ UNCHANGED <<config, globals, file_position, is_startup, log_file, file_exists,
                   pc, reader, pending, ghosts>>

(***************************************************************************)
(* Specifications.                                                         *)
(***************************************************************************)
WindowSizes == {2}
Thresholds == {50}
Cooldowns == {1}

\* faulty variant: the timestamps start at the time the process starts
StampAtStart == StartTime

\* lines 21-22
InitialStamp == 0

\* lines 19-25
InitGlobals ==
    /\ request_window = <<>>
    /\ current_pool = "None"
    /\ last_failover_alert = InitialStamp
    /\ last_error_alert = InitialStamp
    /\ file_position = 0
    /\ last_parsed_data = EmptyDict
    /\ is_startup = TRUE
    /\ alert_count = [k \in Kinds |-> 0]
    /\ last_alert = [k \in Kinds |-> NoAlert]
    /\ verdict = "none"
    /\ cands = [k \in Kinds |-> NoCand]

InitProcess ==
    /\ now = StartTime
    /\ pc = "await"
    /\ reader = [t \in Threads |-> -1]
    /\ pending = FALSE

InitFile ==
    /\ log_file = <<>>
    /\ file_exists = FALSE
    /\ high_water = 0
    /\ reread = FALSE
    /\ historical = FALSE
    /\ backlog_end = 0

Init ==
    /\ WINDOW_SIZE \in WindowSizes
    /\ ERROR_RATE_THRESHOLD \in Thresholds
    /\ ALERT_COOLDOWN \in Cooldowns
    /\ SLACK_WEBHOOK_URL \in BOOLEAN
    /\ InitGlobals
    /\ InitProcess
    /\ InitFile

\* the tail engine alone: no endpoint configured, alerts are only logged
InitTail ==
    /\ WINDOW_SIZE \in WindowSizes
    /\ ERROR_RATE_THRESHOLD \in Thresholds
    /\ ALERT_COOLDOWN \in Cooldowns
    /\ SLACK_WEBHOOK_URL = FALSE
    /\ InitGlobals
    /\ InitProcess
    /\ InitFile

\* whole lines, as one write each: pool A serving or failing, pool B serving
LineChunks == {<<"pool=A", "upstream_status=200", NL>>,
               <<"pool=A", "upstream_status=500", NL>>,
               <<"pool=B", "upstream_status=200", NL>>}
\* text arriving in pieces: a line may be written in several parts, may lack
\* its pool or its status, and may be empty
TailChunks == {<<"pool=A">>, <<"upstream_status=500">>, <<NL>>,
               <<"pool=B", "upstream_status=200", NL>>}

Engine ==
    \/ StartBackfill
    \/ \E t \in Threads : ProcessLine(t)
    \/ \E t \in Threads : EndPass(t)
    \/ EndStartup
    \/ StartObserver
    \/ on_modified

Next ==
    \/ CreateFile
    \/ \E c \in LineChunks : AppendLog(c, 3 * MaxLines)
    \/ Tick(StartTime + MaxTicks)
    \/ Engine

Spec == Init /\ [][Next]_vars

NextTail ==
    \/ CreateFile
    \/ \E c \in TailChunks : AppendLog(c, MaxAtoms)
    \/ \E t \in Threads : ReadFault(t)
    \/ Engine

SpecTail == InitTail /\ [][NextTail]_vars

(***************************************************************************)
(* The watcher with both of its threads scheduled: main() goes on whenever *)
(* it can (it only waits for the file), a read loop runs to the end of the *)
(* file, and the observer thread takes every event that is queued for it.  *)
(***************************************************************************)
NextLive ==
    \/ CreateFile
    \/ \E c \in LineChunks : AppendLog(c, 3 * MaxLiveLines)
    \/ Engine

Scheduled ==
    /\ WF_vars(StartBackfill)
    /\ WF_vars(\E t \in Threads : ProcessLine(t))
    /\ WF_vars(\E t \in Threads : EndPass(t))
    /\ WF_vars(EndStartup)
    /\ WF_vars(StartObserver)
    /\ WF_vars(on_modified)

SpecLive == InitTail /\ [][NextLive]_vars /\ Scheduled

(***************************************************************************)
(* The default configuration (WINDOW_SIZE 200, threshold 2 percent,        *)
(* cooldown 300 s), entered just below the 50-sample floor: the watcher    *)
(* found a log of VerdictBase lines of pool A at startup, with a few       *)
(* errors anywhere among them, has read it to its end and has gone live.   *)
(***************************************************************************)
VerdictBase == FloorSamples - 1
DefaultCooldown == 300

LineOf(pool, err) ==
    <<IF pool = "A" THEN "pool=A" ELSE "pool=B",
      IF err THEN "upstream_status=500" ELSE "upstream_status=200", NL>>

RECURSIVE FileOf(_)
FileOf(flags) ==
    IF flags = <<>> THEN <<>> ELSE LineOf("A", Head(flags)) \o FileOf(Tail(flags))

\* no error, one error or two errors, at any places
BaseErrors == {{}} \cup {{i, j} : i \in 1..VerdictBase, j \in 1..VerdictBase}
BaseWindows == {[i \in 1..VerdictBase |-> i \in E] : E \in BaseErrors}

InitVerdict ==
    /\ WINDOW_SIZE = 200
    /\ ERROR_RATE_THRESHOLD = 2
    /\ ALERT_COOLDOWN = DefaultCooldown
    /\ SLACK_WEBHOOK_URL = FALSE
    /\ request_window \in BaseWindows
    /\ log_file = FileOf(request_window)
    /\ file_exists = TRUE
    /\ file_position = Len(log_file)
    /\ high_water = Len(log_file)
    /\ reread = FALSE
    /\ historical = TRUE
    /\ backlog_end = 0
    /\ current_pool = "A"
    /\ last_parsed_data = [pool |-> "A",
                           upstream_status |-> IF request_window[1] THEN 500 ELSE 200]
    /\ last_failover_alert = InitialStamp
    /\ last_error_alert = InitialStamp
    /\ is_startup = FALSE
    /\ alert_count = [k \in Kinds |-> 0]
    /\ last_alert = [k \in Kinds |-> NoAlert]
    /\ verdict = "none"
    /\ cands = [k \in Kinds |-> NoCand]
    /\ now = DefaultCooldown + StartTime
    /\ pc = "live"
    /\ reader = [t \in Threads |-> -1]
    /\ pending = FALSE

VerdictChunks == {LineOf("A", e) : e \in BOOLEAN}

NextVerdict ==
    \/ \E c \in VerdictChunks : AppendLog(c, 3 * MaxVerdictLines)
    \/ on_modified
    \/ ProcessLine("observer")
    \/ EndPass("observer")

SpecVerdict == InitVerdict /\ [][NextVerdict]_vars

(***************************************************************************)
(* Vocabulary of the properties.                                           *)
(***************************************************************************)
\* this step is one iteration of thread t's read loop
Handled(t) == reader[t] >= 0 /\ reader'[t] > reader[t]
\* the text that iteration is handed, and the record parsed from it
RawAt(t) == NextLine(log_file, reader[t])
RecordAt(t) == parse_log_line(strip(RawAt(t)))
Is5xx(rec) == rec.upstream_status \in 500..599
\* the last n elements of a sequence
LastN(q, n) == IF Len(q) > n THEN SubSeq(q, Len(q) - n + 1, Len(q)) ELSE q
\* the window after one more outcome
Slid(window, flag) == LastN(Append(window, flag), WINDOW_SIZE)
Fired(kind) == alert_count'[kind] = alert_count[kind] + 1
NoAlertsYet == \A k \in Kinds : alert_count[k] = 0
\* the outcomes of the records in the text from offset pos up to offset upto
RECURSIVE OutcomesOf(_, _, _)
OutcomesOf(file, pos, upto) ==
    IF pos >= upto THEN <<>>
    ELSE LET raw == NextLine(file, pos)
             rec == parse_log_line(strip(raw))
         IN  (IF rec = NoRecord THEN <<>> ELSE <<Is5xx(rec)>>)
             \o OutcomesOf(file, pos + Len(raw), upto)
\* the pools of the records in the text from offset pos up to offset upto
RECURSIVE PoolsOf(_, _, _)
PoolsOf(file, pos, upto) ==
    IF pos >= upto THEN <<>>
    ELSE LET raw == NextLine(file, pos)
             rec == parse_log_line(strip(raw))
         IN  (IF rec = NoRecord THEN <<>> ELSE <<rec.pool>>)
             \o PoolsOf(file, pos + Len(raw), upto)
Errors(window) == Cardinality({i \in 1..Len(window) : window[i]})

(***************************************************************************)
(* C1. Startup suppression: while is_startup is true, handling a line      *)
(* sends no alert of either kind and changes neither last-alert timestamp, *)
(* yet a parsed record's pool becomes the tracked pool and its outcome is  *)
(* appended to the sliding window.                                         *)
(***************************************************************************)
C1_StartupSuppression ==
    [][\A t \in Threads :
         (Handled(t) /\ is_startup) =>
            /\ alert_count' = alert_count
            /\ last_alert' = last_alert
            /\ last_failover_alert' = last_failover_alert
            /\ last_error_alert' = last_error_alert
            /\ RecordAt(t) # NoRecord =>
                  /\ current_pool' = RecordAt(t).pool
                  /\ request_window' = Slid(request_window, Is5xx(RecordAt(t)))]_vars

\* in startup mode a pool change B to A and a breach have been seen, unalerted
C1_Witness ==
    /\ is_startup
    /\ reader["main"] = 9
    /\ PoolsOf(log_file, 0, 9) = <<"B", "A", "A">>
    /\ current_pool = "A"
    /\ verdict = "breach"
    /\ request_window = <<TRUE, TRUE>>
    /\ NoAlertsYet
    /\ last_failover_alert = 0 /\ last_error_alert = 0

(***************************************************************************)
(* C2, as claimed. Cooldown: of two consecutive alert candidates of one    *)
(* kind in live mode (two pool changes, two breaches), exactly one is sent *)
(* when less than ALERT_COOLDOWN seconds separate them, and both are sent  *)
(* when more than ALERT_COOLDOWN seconds separate them.                    *)
(***************************************************************************)
C2_AnyTwoCandidates ==
    \A k \in Kinds :
       LET c == cands[k]
       IN  c.gap >= 0 =>
             /\ c.gap < ALERT_COOLDOWN => (c.prev_fired # c.fired)
             /\ c.gap > ALERT_COOLDOWN => (c.prev_fired /\ c.fired)

(***************************************************************************)
(* C2, amended. Cooldown: of two consecutive alert candidates of one kind  *)
(* in live mode of which the first was sent, the second is suppressed when *)
(* less than ALERT_COOLDOWN seconds separate them (one alert in all) and   *)
(* sent when more than ALERT_COOLDOWN seconds separate them (two alerts).  *)
(***************************************************************************)
C2_Cooldown ==
    \A k \in Kinds :
       LET c == cands[k]
       IN  (c.gap >= 0 /\ c.prev_fired) =>
             /\ c.gap < ALERT_COOLDOWN => ~c.fired
             /\ c.gap > ALERT_COOLDOWN => c.fired

\* two pool changes more than the cooldown apart, both sent
C2_Witness ==
    /\ cands["failover"].prev_fired
    /\ cands["failover"].gap > ALERT_COOLDOWN
    /\ cands["failover"].fired
    /\ alert_count["failover"] = 2

(***************************************************************************)
(* C3. Window bound: the sliding window never holds more than WINDOW_SIZE  *)
(* outcomes, and it holds exactly the last WINDOW_SIZE outcomes (all of    *)
(* them while there are fewer) of the records read so far, in the order    *)
(* they were read.                                                         *)
(***************************************************************************)
C3_WindowBound ==
    /\ Len(request_window) <= WINDOW_SIZE
    /\ request_window = LastN(OutcomesOf(log_file, 0, high_water), WINDOW_SIZE)

\* three records read into a window of two: the oldest outcome is gone
C3_Witness ==
    /\ WINDOW_SIZE = 2
    /\ high_water = 9
    /\ OutcomesOf(log_file, 0, high_water) = <<TRUE, FALSE, TRUE>>
    /\ request_window = <<FALSE, TRUE>>

(***************************************************************************)
(* C4. Threshold verdict: after each appended outcome a breach is          *)
(* recognised exactly when the window holds at least min(50, WINDOW_SIZE)  *)
(* samples and errors / samples is strictly above the threshold, whatever  *)
(* the order of the outcomes in the window; below the floor there is no    *)
(* verdict. With WINDOW_SIZE 200 and threshold 2 percent, 2 errors in 50   *)
(* samples are a breach and 49 samples give no verdict.                    *)
(***************************************************************************)
C4_ThresholdVerdict ==
    LET T == Len(request_window)
        E == Errors(request_window)
        floor == IF WINDOW_SIZE < 50 THEN WINDOW_SIZE ELSE 50
    IN  /\ verdict = "breach" <=> (T >= floor /\ E * 100 > ERROR_RATE_THRESHOLD * T)
        /\ verdict = "none" <=> T < floor
        /\ verdict \in {"none", "ok", "breach"}

\* exactly at the floor: 50 samples, 2 errors, breach recognised and alerted
C4_Witness ==
    /\ WINDOW_SIZE = 200 /\ ERROR_RATE_THRESHOLD = 2
    /\ Len(request_window) = 50
    /\ Errors(request_window) = 2
    /\ verdict = "breach"
    /\ alert_count["error"] = 1

(***************************************************************************)
(* C5. Failover alerts arise only from pool changes: a failover alert is   *)
(* sent only in a read-loop step whose record names a pool other than the  *)
(* already-set tracked pool, and it names the tracked pool as 'from' and   *)
(* the record's pool as 'to'; the first record and a record repeating the  *)
(* tracked pool send none. So the pool sequence A,A,A,B, all read after    *)
(* startup, has sent exactly one failover alert, A to B.                   *)
(***************************************************************************)
C5_FailoverStep ==
    (alert_count'["failover"] # alert_count["failover"]
       \/ last_alert'["failover"] # last_alert["failover"]) =>
       \E t \in Threads :
          /\ Handled(t)
          /\ RecordAt(t) # NoRecord
          /\ current_pool # "None"
          /\ RecordAt(t).pool # current_pool
          /\ Fired("failover")
          /\ last_alert'["failover"].from = current_pool
          /\ last_alert'["failover"].to = RecordAt(t).pool

C5_Scenario ==
    (/\ ~historical /\ ~is_startup
     /\ file_position = Len(log_file)
     /\ PoolsOf(log_file, 0, Len(log_file)) = <<"A", "A", "A", "B">>)
    => /\ alert_count["failover"] = 1
       /\ last_alert["failover"].from = "A"
       /\ last_alert["failover"].to = "B"

C5_FailoverOnlyOnChange == []C5_Scenario /\ [][C5_FailoverStep]_vars

\* the log A,A,A,B has been read after startup and one alert A to B was sent
C5_Witness ==
    /\ ~historical /\ ~is_startup
    /\ file_position = Len(log_file)
    /\ PoolsOf(log_file, 0, Len(log_file)) = <<"A", "A", "A", "B">>
    /\ alert_count["failover"] = 1
    /\ last_alert["failover"].from = "A"
    /\ last_alert["failover"].to = "B"

(***************************************************************************)
(* C6, as claimed. Idempotent re-read: over a file that only grows, no     *)
(* record is parsed from text a read pass was handed before, so every line *)
(* reaches the detectors and the window at most once.                      *)
(***************************************************************************)
C6_NoLineTwice == ~reread

\* the end of the last complete line
LastTerminator(file) ==
    LET nls == {i \in 1..Len(file) : file[i] = NL}
    IN  IF nls = {} THEN 0 ELSE CHOOSE i \in nls : \A j \in nls : j <= i

(***************************************************************************)
(* C7, as claimed. Partial trailing line: no read loop is handed text of a *)
(* line that has no terminator yet, and the committed offset is never past *)
(* the start of such a line.                                               *)
(***************************************************************************)
C7_PartialLineLeft ==
    /\ high_water <= LastTerminator(log_file)
    /\ file_position <= LastTerminator(log_file)

Stamp(kind) == IF kind = "failover" THEN last_failover_alert ELSE last_error_alert

(***************************************************************************)
(* C8. Sink outcome does not affect monitor state: whatever the sink does  *)
(* (no endpoint, non-200 response, exception), the step that sends an      *)
(* alert is a completed iteration of the read loop, the pass going on to   *)
(* the next line: the alert's timestamp is the time of the step, the       *)
(* tracked pool is the record's pool and the record's outcome is in the    *)
(* window. No alert is sent within the cooldown of the one before it,      *)
(* delivered or not.                                                       *)
(***************************************************************************)
C8_SinkStep ==
    \A k \in Kinds :
       alert_count'[k] # alert_count[k] =>
          /\ \E t \in Threads :
                /\ reader[t] >= 0
                /\ reader'[t] = reader[t] + Len(RawAt(t))
                /\ RecordAt(t) # NoRecord
                /\ current_pool' = RecordAt(t).pool
                /\ request_window' = Slid(request_window, Is5xx(RecordAt(t)))
          /\ Fired(k)
          /\ IF k = "failover" THEN last_failover_alert' = now
                               ELSE last_error_alert' = now
          /\ now - Stamp(k) > ALERT_COOLDOWN

C8_SinkIndependent == [][C8_SinkStep]_vars

\* a failover alert whose delivery failed; the next pool change, inside the
\* cooldown, was suppressed and the pass has gone on
C8_Witness ==
    /\ last_alert["failover"].delivery = "failed"
    /\ alert_count["failover"] = 1
    /\ cands["failover"].prev_fired
    /\ ~cands["failover"].fired
    /\ cands["failover"].gap < ALERT_COOLDOWN
    /\ last_failover_alert = now
    /\ reader["observer"] = 9

(***************************************************************************)
(* C9. The first alert is not blocked by the cooldown: in live mode, the   *)
(* first pool change seen while no failover alert has been sent sends one, *)
(* and the first breach seen while no error-rate alert has been sent sends *)
(* one, however little time has passed since the process started.          *)
(***************************************************************************)
C9_FirstStep ==
    \A t \in Threads :
       (Handled(t) /\ ~is_startup /\ RecordAt(t) # NoRecord) =>
          LET rec == RecordAt(t)
              w == Slid(request_window, Is5xx(rec))
              floor == IF WINDOW_SIZE < 50 THEN WINDOW_SIZE ELSE 50
          IN  /\ (/\ alert_count["failover"] = 0
                  /\ current_pool # "None"
                  /\ rec.pool # current_pool) => Fired("failover")
              /\ (/\ alert_count["error"] = 0
                  /\ Len(w) >= floor
                  /\ Errors(w) * 100 > ERROR_RATE_THRESHOLD * Len(w)) => Fired("error")

C9_FirstAlertFires == [][C9_FirstStep]_vars

\* pool A with a 500, then pool B with a 200, both read after startup in the
\* second the process started: one alert, A to B
C9_Witness ==
    /\ log_file = LineOf("A", TRUE) \o LineOf("B", FALSE)
    /\ ~historical /\ ~is_startup
    /\ file_position = 6
    /\ now = StartTime
    /\ alert_count["failover"] = 1
    /\ last_failover_alert = StartTime
    /\ last_alert["failover"].from = "A" /\ last_alert["failover"].to = "B"

(***************************************************************************)
(* C10, as claimed. Per-line fault isolation: a fault while one line is    *)
(* read or processed costs the other lines nothing; whenever no read pass  *)
(* is running, every record a pass has handled is behind the committed     *)
(* offset, so that no later pass handles it again.                         *)
(***************************************************************************)
C10_FaultIsolated ==
    (\A t \in Threads : reader[t] = -1) =>
        OutcomesOf(log_file, file_position, high_water) = <<>>

(***************************************************************************)
(* C11. Tracked pool follows the log: after a read-loop step has handled a *)
(* parsed record, in startup or in live mode, with the alert sent or       *)
(* suppressed by the cooldown, current_pool is the pool of that record.    *)
(***************************************************************************)
C11_PoolFollowsLog ==
    [][\A t \in Threads :
         (Handled(t) /\ RecordAt(t) # NoRecord) =>
            current_pool' = RecordAt(t).pool]_vars

\* pools A, B, A read in live mode within one second: the change to B was
\* alerted, the change back to A was suppressed, and A is the tracked pool
C11_Witness ==
    /\ ~is_startup /\ ~historical
    /\ reader["observer"] = 9
    /\ PoolsOf(log_file, 0, 9) = <<"A", "B", "A">>
    /\ alert_count["failover"] = 1
    /\ cands["failover"].prev_fired /\ ~cands["failover"].fired
    /\ current_pool = "A"

\* the states of the engine: AwaitingFile, Backfilling, Live
Phase ==
    IF pc = "await" THEN "AwaitingFile"
    ELSE IF is_startup THEN "Backfilling"
    ELSE "Live"

(***************************************************************************)
(* C12, as claimed. Startup lifecycle: the engine moves AwaitingFile to    *)
(* Backfilling to Live and in no other way; is_startup, once false, stays  *)
(* false; it turns false only when the committed offset has reached the    *)
(* end of the content the file had when the backfill pass opened it, and   *)
(* no text of that content is handled by a read loop while is_startup is   *)
(* false.                                                                  *)
(***************************************************************************)
C12_LifecycleStep ==
    /\ Phase' # Phase =>
          <<Phase, Phase'>> \in {<<"AwaitingFile", "Backfilling">>, <<"Backfilling", "Live">>}
    /\ ~is_startup => ~is_startup'
    /\ (is_startup /\ ~is_startup') => backlog_end = 0
    /\ \A t \in Threads : (Handled(t) /\ ~is_startup) => reader[t] >= backlog_end

C12_StartupLifecycle == [][C12_LifecycleStep]_vars

(***************************************************************************)
(* C13, as claimed. Last seen record: after a read-loop step has handled a *)
(* parsed record, last_parsed_data is that record, and an error-rate alert *)
(* sent in the step carries that record.                                   *)
(***************************************************************************)
C13_LastSeenStep ==
    \A t \in Threads :
       (Handled(t) /\ RecordAt(t) # NoRecord) =>
          /\ last_parsed_data' = RecordAt(t)
          /\ Fired("error") => last_alert'["error"].data = RecordAt(t)

C13_LastSeenRecord == [][C13_LastSeenStep]_vars

(***************************************************************************)
(* C14. Offset monotonicity: over a file that is only appended to, the     *)
(* committed offset file_position never decreases, whether a read pass     *)
(* ends at end of file or in an error, and it is never beyond the size of  *)
(* the file.                                                               *)
(***************************************************************************)
C14_OffsetMonotone ==
    /\ [](file_position <= Len(log_file))
    /\ [][file_position' >= file_position]_vars

\* a pass that began at a committed offset above 0 was handed text beyond it
\* and ended in an error: the offset is where it was
C14_Witness ==
    /\ \A t \in Threads : reader[t] = -1
    /\ file_position > 0
    /\ high_water > file_position
    /\ file_position < Len(log_file)

\* the window after the record of thread t's step breaches the threshold
BreachAt(t) ==
    LET w == Slid(request_window, Is5xx(RecordAt(t)))
        floor == IF WINDOW_SIZE < 50 THEN WINDOW_SIZE ELSE 50
    IN  Len(w) >= floor /\ Errors(w) * 100 > ERROR_RATE_THRESHOLD * Len(w)
\* the record of thread t's step names another pool than the tracked one
ChangeAt(t) == current_pool # "None" /\ RecordAt(t).pool # current_pool

(***************************************************************************)
(* C15. Cooldowns are per kind: a step that sends or suppresses a failover *)
(* alert and sends no error-rate alert leaves last_error_alert unchanged,  *)
(* and a step that sends or suppresses an error-rate alert and sends no    *)
(* failover alert leaves last_failover_alert unchanged; in live mode a     *)
(* pool change more than ALERT_COOLDOWN after the last failover alert is   *)
(* alerted however recent the last error-rate alert is, and a breach more  *)
(* than ALERT_COOLDOWN after the last error-rate alert is alerted however  *)
(* recent the last failover alert is.                                      *)
(***************************************************************************)
C15_PerKindStep ==
    \A t \in Threads :
       (Handled(t) /\ RecordAt(t) # NoRecord) =>
          /\ (ChangeAt(t) /\ ~Fired("error")) => last_error_alert' = last_error_alert
          /\ (BreachAt(t) /\ ~Fired("failover")) =>
                last_failover_alert' = last_failover_alert
          /\ (~is_startup /\ ChangeAt(t) /\ now - last_failover_alert > ALERT_COOLDOWN)
                => Fired("failover")
          /\ (~is_startup /\ BreachAt(t) /\ now - last_error_alert > ALERT_COOLDOWN)
                => Fired("error")

C15_CooldownPerKind == [][C15_PerKindStep]_vars

\* an error-rate alert for pool A, then in the same second a change to pool B:
\* the failover alert is sent within the cooldown of the error-rate alert
C15_Witness ==
    /\ alert_count["error"] = 1 /\ alert_count["failover"] = 1
    /\ last_alert["error"].to = "A"
    /\ last_alert["failover"].from = "A" /\ last_alert["failover"].to = "B"
    /\ last_error_alert = now /\ last_failover_alert = now
    /\ verdict = "ok"

\* thread t is inside process_new_lines
InPass(t) == reader[t] >= 0

(***************************************************************************)
(* C16. Single owner of the monitor state: never are two threads inside    *)
(* process_new_lines at once; the main thread is inside it only during the *)
(* backfill, the observer thread only once the backfill pass has returned  *)
(* and is_startup is false; and current_pool, the window, the alert        *)
(* timestamps and file_position change only in a step of the one thread    *)
(* that is inside process_new_lines.                                       *)
(***************************************************************************)
C16_OneAtATime ==
    /\ ~(InPass("main") /\ InPass("observer"))
    /\ InPass("main") => (pc = "backfill" /\ is_startup)
    /\ InPass("observer") => (pc = "live" /\ ~is_startup)

C16_OwnerStep ==
    (\/ current_pool' # current_pool
     \/ request_window' # request_window
     \/ last_failover_alert' # last_failover_alert
     \/ last_error_alert' # last_error_alert
     \/ file_position' # file_position) =>
       \E t \in Threads :
          /\ InPass(t)
          /\ reader'[t] # reader[t]
          /\ \A u \in Threads \ {t} : ~InPass(u) /\ reader'[u] = reader[u]

C16_SingleOwner == []C16_OneAtATime /\ [][C16_OwnerStep]_vars

\* the backfill pass has read a backlog and returned; the observer thread is
\* now inside process_new_lines, reading text appended since
C16_Witness ==
    /\ historical
    /\ ~InPass("main") /\ InPass("observer")
    /\ file_position > 0
    /\ reader["observer"] > file_position
    /\ current_pool # "None"

\* the text is empty once stripped, or holds no pool token, or no status token
Unparseable(raw) ==
    \/ strip(raw) = <<>>
    \/ \A i \in 1..Len(raw) : raw[i] \notin PoolTok
    \/ \A i \in 1..Len(raw) : raw[i] \notin StatusTok

(***************************************************************************)
(* C17. Unparseable lines are skipped without effect: a read-loop step     *)
(* over a line that is empty or lacks a pool token or a status token       *)
(* leaves the tracked pool, the window, both alert timestamps and the      *)
(* last-seen record unchanged and sends no alert; the read position moves  *)
(* past the line and nothing else changes.                                 *)
(***************************************************************************)
C17_SkipStep ==
    \A t \in Threads :
       (Handled(t) /\ Unparseable(RawAt(t))) =>
          /\ UNCHANGED <<current_pool, request_window, last_failover_alert,
                         last_error_alert, last_parsed_data, alert_count, last_alert>>
          /\ UNCHANGED <<file_position, is_startup, verdict, pc>>
          /\ reader'[t] = reader[t] + Len(RawAt(t))

C17_UnparseableSkipped == [][C17_SkipStep]_vars

\* after a record of pool B, a line with a pool token but no status has been
\* passed: the monitor state is that of the record of pool B
C17_Witness ==
    /\ log_file = <<"pool=B", "upstream_status=200", NL, "pool=A", NL>>
    /\ \E t \in Threads : reader[t] = 5
    /\ high_water = 5
    /\ current_pool = "B"
    /\ request_window = <<FALSE>>
    /\ last_parsed_data = [pool |-> "B", upstream_status |-> 200]
    /\ NoAlertsYet

(***************************************************************************)
(* C18. Suppressed events do not touch the cooldown: last_failover_alert   *)
(* and last_error_alert each change only in a step that sends an alert of  *)
(* that kind, and then become the time of the step; a step that sends no   *)
(* alert of a kind (the event is suppressed by the cooldown or by startup  *)
(* mode, the record does not breach, the pool is repeated, or no record is *)
(* handled at all) leaves the timestamp of that kind unchanged.            *)
(***************************************************************************)
C18_StampStep ==
    \A k \in Kinds :
       /\ Stamp(k)' # Stamp(k) => (Fired(k) /\ Stamp(k)' = now)
       /\ Fired(k) => Stamp(k)' = now
       /\ ~Fired(k) => Stamp(k)' = Stamp(k)

C19_EventuallyParsed == <>[](high_water >= LastTerminator(log_file))

====
